---- MODULE Spec2Model ----
(***************************************************************************)
(* Model of src/utils/security.py: salted PBKDF2 hashing and verification, *)
(* HMAC signing and Fernet encryption, as calls made by a client, one at a *)
(* time and from two threads; and of the application of src/main.py: its   *)
(* /health, /status and /openapi.json requests.                            *)
(*                                                                         *)
(* A Python str is a sequence of code points, a bytes object a sequence of *)
(* numbers in 0..255.  The library primitives the module calls (base64,    *)
(* int, str.split, hmac.compare_digest, PBKDF2, HMAC, SHA-256, Fernet) are *)
(* modelled by what they compute; the digests are 32-byte checksums that   *)
(* stand in for collision-resistant hashes.                                *)
(***************************************************************************)
EXTENDS Integers, Sequences, FiniteSets, TLC

\* The security module keeps no state of its own.  The state of the model is
\* what a client of the module sees: whether the cryptography package is
\* installed in the environment, and the last two calls it made, each with
\* its arguments and its outcome.
VARIABLES installed, prev, last

\* For calls made at the same time, the state is the frame of the call that
\* each thread of the caller is in: where it is, its arguments, what it read
\* from the entropy source and the clock, and its outcome.
VARIABLE threads

\* The state of the web application of src/main.py: the ENVIRONMENT variable
\* of the process, the health counter that setup_telemetry returned (or
\* none), the calls made of the counter's add, app.openapi_schema, and what a
\* client has seen: the number of /health requests handled, the number of
\* times get_openapi ran, the schemas custom_openapi returned and the last
\* response.
VARIABLES environ, health_endpoint_counter, add_calls, health_requests,
          openapi_schema, get_openapi_calls, openapi_returns, response

\* ------------------------------------------------------------ code points
DOLLAR == 36
PLUS == 43
MINUS == 45
SLASH == 47
ZERO == 48
NINE == 57
EQUALS == 61
UNDERSCORE == 95

RECURSIVE ConcatRange(_, _, _)
\* the concatenation of parts[lo..hi], by halves
ConcatRange(parts, lo, hi) ==
  IF lo > hi THEN <<>>
  ELSE IF lo = hi THEN parts[lo]
  ELSE LET mid == (lo + hi) \div 2
       IN ConcatRange(parts, lo, mid) \o ConcatRange(parts, mid + 1, hi)

\* b"".join(parts) / "".join(parts)
Concat(parts) == ConcatRange(parts, 1, Len(parts))

\* str.encode("utf-8") of one code point (one- and two-byte forms)
Utf8Char(cp) ==
  IF cp < 128 THEN <<cp>> ELSE <<192 + (cp \div 64), 128 + (cp % 64)>>

\* str.encode("utf-8")
Utf8Encode(s) == Concat([i \in 1..Len(s) |-> Utf8Char(s[i])])

\* bytes.decode("utf-8") of the one- and two-byte forms: a character starts
\* at every byte that is not a continuation byte (128..191)
Utf8Decode(b) ==
  LET starts == SelectSeq([i \in 1..Len(b) |-> i],
                          LAMBDA i : b[i] < 128 \/ b[i] >= 192)
  IN [k \in 1..Len(starts) |->
        IF b[starts[k]] < 128 THEN b[starts[k]]
        ELSE (b[starts[k]] - 192) * 64 + (b[starts[k] + 1] - 128)]

\* --------------------------------------------------------------- base64
\* the URL-safe alphabet: value 0..63 -> ASCII code
B64Char(v) ==
  IF v < 26 THEN 65 + v
  ELSE IF v < 52 THEN 97 + (v - 26)
  ELSE IF v < 62 THEN ZERO + (v - 52)
  ELSE IF v = 62 THEN MINUS ELSE UNDERSCORE

\* base64.urlsafe_b64encode: every three bytes give four characters; a last
\* group of one or two bytes is padded with '='
urlsafe_b64encode(b) ==
  LET n == Len(b)
      at(i) == IF i <= n THEN b[i] ELSE 0
  IN [k \in 1..(4 * ((n + 2) \div 3)) |->
        LET g == 3 * ((k - 1) \div 4)
            r == (k - 1) % 4
        IN IF r = 0 THEN B64Char(at(g + 1) \div 4)
           ELSE IF r = 1 THEN B64Char((at(g + 1) % 4) * 16 + (at(g + 2) \div 16))
           ELSE IF r = 2 THEN
             IF g + 2 > n THEN EQUALS
             ELSE B64Char((at(g + 2) % 16) * 4 + (at(g + 3) \div 64))
           ELSE IF g + 3 > n THEN EQUALS ELSE B64Char(at(g + 3) % 64)]

\* the decoder's table after urlsafe translation: '-' and '+' are both 62,
\* '_' and '/' both 63; 64 marks a character outside the alphabet
B64Value(c) ==
  IF c >= 65 /\ c <= 90 THEN c - 65
  ELSE IF c >= 97 /\ c <= 122 THEN c - 97 + 26
  ELSE IF c >= ZERO /\ c <= NINE THEN c - ZERO + 52
  ELSE IF c = MINUS \/ c = PLUS THEN 62
  ELSE IF c = UNDERSCORE \/ c = SLASH THEN 63
  ELSE 64

\* binascii.a2b_base64 in its default non-strict mode.  The decoder's state:
\* quad the position in the current quad, left the bits carried over, pads
\* the count of '=' seen in a pad sequence, out the bytes so far, done once
\* a completed pad sequence has ended the parse.
A2BStart == [quad |-> 0, left |-> 0, pads |-> 0, out |-> <<>>, done |-> FALSE]

\* One character c of the input: characters outside the alphabet are
\* skipped, '=' counts towards a pad sequence, a data character fills the
\* quad and the bits left over in the last character are dropped.
A2BStep(st, c) ==
  IF st.done THEN st
  ELSE IF c = EQUALS THEN
    IF st.quad >= 2 /\ st.quad + st.pads + 1 >= 4
    THEN [st EXCEPT !.done = TRUE]
    ELSE [st EXCEPT !.pads = IF st.quad >= 2 THEN @ + 1 ELSE @]
  ELSE
    LET v == B64Value(c) IN
    IF v >= 64 THEN st
    ELSE IF st.quad = 0 THEN [st EXCEPT !.quad = 1, !.left = v, !.pads = 0]
    ELSE IF st.quad = 1 THEN
      [st EXCEPT !.quad = 2, !.left = v % 16, !.pads = 0,
                 !.out = Append(@, st.left * 4 + (v \div 16))]
    ELSE IF st.quad = 2 THEN
      [st EXCEPT !.quad = 3, !.left = v % 4, !.pads = 0,
                 !.out = Append(@, st.left * 16 + (v \div 4))]
    ELSE [st EXCEPT !.quad = 0, !.left = 0, !.pads = 0,
                    !.out = Append(@, st.left * 64 + v)]

RECURSIVE A2BRun(_, _, _, _)
\* the decoder's state after the characters s[lo..hi], from state st
A2BRun(s, lo, hi, st) ==
  IF lo > hi THEN st
  ELSE IF lo = hi THEN A2BStep(st, s[lo])
  ELSE LET mid == (lo + hi) \div 2
           half == A2BRun(s, lo, mid, st)
       IN IF half.done THEN half ELSE A2BRun(s, mid + 1, hi, half)

\* binascii.a2b_base64(s): [ok, bytes]; not ok is binascii.Error, raised
\* when the input ends inside a quad
a2b_base64(s) ==
  LET st == A2BRun(s, 1, Len(s), A2BStart) IN
  IF ~st.done /\ st.quad # 0 THEN [ok |-> FALSE, bytes |-> <<>>]
  ELSE [ok |-> TRUE, bytes |-> st.out]

\* base64.urlsafe_b64decode(s) for bytes s
urlsafe_b64decode(s) == a2b_base64(s)

\* ------------------------------------------------- str and int helpers
RECURSIVE Split(_, _)
\* str.split(sep) with a one-character separator: the list of fields
Split(s, sep) ==
  IF \A i \in 1..Len(s) : s[i] # sep THEN <<s>>
  ELSE LET k == CHOOSE i \in 1..Len(s) :
                  s[i] = sep /\ \A j \in 1..(i - 1) : s[j] # sep
       IN <<SubSeq(s, 1, k - 1)>> \o Split(SubSeq(s, k + 1, Len(s)), sep)

\* str.isspace for the characters int() strips
IsSpace(c) == c \in 9..13 \/ c \in 28..32 \/ c = 133 \/ c = 160

IsDigit(c) == c >= ZERO /\ c <= NINE

RECURSIVE Strip(_)
\* str.strip()
Strip(s) ==
  IF s = <<>> THEN s
  ELSE IF IsSpace(s[1]) THEN Strip(Tail(s))
  ELSE IF IsSpace(s[Len(s)]) THEN Strip(SubSeq(s, 1, Len(s) - 1))
  ELSE s

RECURSIVE DigitsValue(_, _)
\* the value of a run of digits and single underscores, acc the value so far
DigitsValue(d, acc) ==
  IF d = <<>> THEN acc
  ELSE IF d[1] = UNDERSCORE THEN DigitsValue(Tail(d), acc)
  ELSE DigitsValue(Tail(d), acc * 10 + (d[1] - ZERO))

\* int() accepts digits with single underscores between them
IsDigitRun(d) ==
  /\ d # <<>>
  /\ IsDigit(d[1]) /\ IsDigit(d[Len(d)])
  /\ \A i \in 1..Len(d) : IsDigit(d[i]) \/ d[i] = UNDERSCORE
  /\ \A i \in 1..(Len(d) - 1) : ~(d[i] = UNDERSCORE /\ d[i + 1] = UNDERSCORE)

\* int(s) for a str: [ok, val]; not ok is ValueError.  Surrounding
\* whitespace, one sign, leading zeros and underscores are accepted.
ParseInt(s) ==
  LET t == Strip(s)
      signed == t # <<>> /\ (t[1] = PLUS \/ t[1] = MINUS)
      d == IF signed THEN Tail(t) ELSE t
  IN IF IsDigitRun(d)
     THEN [ok |-> TRUE,
           val |-> IF signed /\ t[1] = MINUS THEN 0 - DigitsValue(d, 0)
                   ELSE DigitsValue(d, 0)]
     ELSE [ok |-> FALSE, val |-> 0]

RECURSIVE NatStr(_)
NatStr(n) ==
  IF n < 10 THEN <<ZERO + n>> ELSE NatStr(n \div 10) \o <<ZERO + (n % 10)>>

\* f"{n}" for an int
IntStr(n) == IF n < 0 THEN <<MINUS>> \o NatStr(0 - n) ELSE NatStr(n)

IsAscii(s) == \A i \in 1..Len(s) : s[i] < 128

\* ------------------------------------------------------------- outcomes
\* What a call gives its caller: a str, a bool, or a raised exception.
Returned(t) == [kind |-> "ok", msg |-> "", text |-> t, bool |-> FALSE]
ReturnedBool(b) == [kind |-> "ok", msg |-> "", text |-> <<>>, bool |-> b]
Raised(k, m) == [kind |-> k, msg |-> m, text |-> <<>>, bool |-> FALSE]

\* ------------------------------------------------- digests and entropy
RECURSIVE WeightedSum(_, _, _, _)
\* the sum over i in lo..hi of (b[i] + 1) * (w * i + 1), modulo 256, by halves
WeightedSum(b, lo, hi, w) ==
  IF lo > hi THEN 0
  ELSE IF lo = hi THEN ((b[lo] + 1) * (w * lo + 1)) % 256
  ELSE LET mid == (lo + hi) \div 2
       IN (WeightedSum(b, lo, mid, w) + WeightedSum(b, mid + 1, hi, w)) % 256

\* The 32 digest bytes of SHA-256, as a checksum: four position-weighted
\* sums of the input spread over 32 bytes.  Every byte of the input and its
\* length change the result.
sha256(b) ==
  LET n == Len(b)
      c == <<(WeightedSum(b, 1, n, 0) + n) % 256,
             (WeightedSum(b, 1, n, 2) + 2 * n) % 256,
             (WeightedSum(b, 1, n, 4) + 3 * n) % 256,
             (WeightedSum(b, 1, n, 6) + 4 * n) % 256>>
  IN [j \in 1..32 |-> (c[(j % 4) + 1] * (2 * (j \div 4) + 1) + j) % 256]

\* HMAC's key block: a key longer than the 64-byte block is hashed first,
\* then the key is padded with zero bytes to the block length
HmacBlockKey(key) ==
  LET k == IF Len(key) > 64 THEN sha256(key) ELSE key
  IN [i \in 1..64 |-> IF i <= Len(k) THEN k[i] ELSE 0]

\* HMAC-SHA256(key, msg): a digest of the key block and the message
hmac_sha256(key, msg) == sha256(HmacBlockKey(key) \o msg)

\* hashlib.pbkdf2_hmac("sha256", password, salt, iterations): the password
\* is the HMAC key; [ok, dk]; not ok is ValueError for iterations < 1.
\* (TLC's integers end before the value at which OpenSSL reports overflow.)
pbkdf2_hmac(password, salt, iterations) ==
  IF iterations < 1 THEN [ok |-> FALSE, dk |-> <<>>]
  ELSE [ok |-> TRUE,
        dk |-> hmac_sha256(password,
                 salt \o <<Len(salt) % 256>> \o Utf8Encode(IntStr(iterations)))]

\* os.urandom(n): n bytes decided by the entropy e that the call draws
urandom(n, e) == [i \in 1..n |-> (e * 83 + i * 29) % 256]

\* ------------------------------------------------------- the operations
DefaultSaltLength == 16
DefaultIterations == 100000

FormatError ==
  Raised("ValueError", "Stored hash has invalid format. Expected 'salt$iterations$hash'.")

\* generate_salt as it would be if it rejected only negative lengths
generate_salt_nonnegative(length, e) ==
  IF length < 0 THEN Raised("ValueError", "Salt length must be positive")
  ELSE Returned(urlsafe_b64encode(urandom(length, e)))

\* generate_salt(length), drawing entropy e
generate_salt(length, e) ==
  IF length <= 0 THEN Raised("ValueError", "Salt length must be positive")
  ELSE Returned(urlsafe_b64encode(urandom(length, e)))

\* An optional salt argument: None, or a str
NoSalt == [val |-> <<>>, given |-> FALSE]
SomeSalt(s) == [val |-> s, given |-> TRUE]

\* hash_text as it would be if it ignored the salt argument and always
\* generated a salt
hash_text_fresh_salt(text, salt, iterations, e) ==
  IF text = <<>> THEN Raised("ValueError", "Text to hash must not be empty")
  ELSE
    LET salt_value == generate_salt(DefaultSaltLength, e).text
        r == pbkdf2_hmac(Utf8Encode(text), Utf8Encode(salt_value), iterations)
    IN IF ~r.ok THEN Raised("ValueError", "iteration value must be greater than 0.")
       ELSE Returned(salt_value \o <<DOLLAR>> \o IntStr(iterations) \o <<DOLLAR>>
                     \o urlsafe_b64encode(r.dk))

\* hash_text(text, salt=salt, iterations=iterations), drawing entropy e when
\* it generates the salt
hash_text(text, salt, iterations, e) ==
  IF text = <<>> THEN Raised("ValueError", "Text to hash must not be empty")
  ELSE
    LET salt_value == IF salt.given /\ salt.val # <<>> THEN salt.val
                      ELSE generate_salt(DefaultSaltLength, e).text
        r == pbkdf2_hmac(Utf8Encode(text), Utf8Encode(salt_value), iterations)
    IN IF ~r.ok THEN Raised("ValueError", "iteration value must be greater than 0.")
       ELSE Returned(salt_value \o <<DOLLAR>> \o IntStr(iterations) \o <<DOLLAR>>
                     \o urlsafe_b64encode(r.dk))

\* hmac.compare_digest(a, b) for two str
compare_digest(a, b) ==
  IF ~IsAscii(a) \/ ~IsAscii(b)
  THEN Raised("TypeError", "comparing strings with non-ASCII characters is not supported")
  ELSE ReturnedBool(a = b)

\* verify_hash as it would be if it compared the recomputed record with
\* stored_hash as passed in
verify_hash_against_stored(text, stored_hash, e) ==
  LET parts == Split(stored_hash, DOLLAR) IN
  IF Len(parts) # 3 \/ ~ParseInt(parts[2]).ok THEN FormatError
  ELSE
    LET calculated == hash_text(text, SomeSalt(parts[1]), ParseInt(parts[2]).val, e)
    IN IF calculated.kind # "ok" THEN calculated
       ELSE compare_digest(calculated.text, stored_hash)

\* verify_hash as it would be if its try block covered the split alone, so
\* that int() raised its own error
verify_hash_int_uncaught(text, stored_hash, e) ==
  LET parts == Split(stored_hash, DOLLAR) IN
  IF Len(parts) # 3 THEN FormatError
  ELSE IF ~ParseInt(parts[2]).ok
  THEN Raised("ValueError", "invalid literal for int() with base 10")
  ELSE
    LET calculated == hash_text(text, SomeSalt(parts[1]), ParseInt(parts[2]).val, e)
    IN IF calculated.kind # "ok" THEN calculated
       ELSE compare_digest(calculated.text,
              parts[1] \o <<DOLLAR>> \o IntStr(ParseInt(parts[2]).val)
              \o <<DOLLAR>> \o parts[3])

\* verify_hash(text, stored_hash), with the entropy e that the inner
\* hash_text may draw
verify_hash(text, stored_hash, e) ==
  LET parts == Split(stored_hash, DOLLAR) IN
  IF Len(parts) # 3 \/ ~ParseInt(parts[2]).ok THEN FormatError
  ELSE
    LET salt == parts[1]
        iterations == ParseInt(parts[2]).val
        hashed == parts[3]
        calculated == hash_text(text, SomeSalt(salt), iterations, e)
    IN IF calculated.kind # "ok" THEN calculated
       ELSE compare_digest(calculated.text,
              salt \o <<DOLLAR>> \o IntStr(iterations) \o <<DOLLAR>> \o hashed)

\* hashlib's attributes that generate_hmac's callers name: digest
\* constructors, other attributes of the module, and names it does not have
HashlibDigests == {"sha256", "md5"}
HashlibOtherAttributes == {"new"}

\* the digest of message under key for a digest constructor of hashlib;
\* MD5 gives 16 bytes
hmac_digest(key, msg, algorithm) ==
  IF algorithm = "sha256" THEN hmac_sha256(key, msg)
  ELSE SubSeq(hmac_sha256(key, <<Len(algorithm)>> \o msg), 1, 16)

\* generate_hmac as it would be if it fell back to SHA-256 for a name that
\* is not a digest of hashlib
generate_hmac_default_digest(message, secret_key, algorithm) ==
  IF message = <<>> THEN Raised("ValueError", "Message must not be empty")
  ELSE IF secret_key = <<>> THEN Raised("ValueError", "Secret key must not be empty")
  ELSE Returned(urlsafe_b64encode(
         hmac_digest(Utf8Encode(secret_key), Utf8Encode(message),
                     IF algorithm \in HashlibDigests THEN algorithm ELSE "sha256")))

\* generate_hmac as it would be if the module kept one HMAC object of a
\* key and algorithm and updated it at every call: the message of the call
\* before is still in it
generate_hmac_kept_object(message, secret_key, algorithm) ==
  IF message = <<>> THEN Raised("ValueError", "Message must not be empty")
  ELSE IF secret_key = <<>> THEN Raised("ValueError", "Secret key must not be empty")
  ELSE IF algorithm \in HashlibDigests THEN
    Returned(urlsafe_b64encode(
      hmac_digest(Utf8Encode(secret_key),
                  Utf8Encode((IF last.op = "generate_hmac" /\ last.out.kind = "ok"
                                   /\ last.args.secret_key = secret_key
                                   /\ last.args.algorithm = algorithm
                              THEN last.args.message ELSE <<>>) \o message),
                  algorithm)))
  ELSE IF algorithm \in HashlibOtherAttributes THEN
    Raised("TypeError", "digestmod is not a digest constructor")
  ELSE Raised("AttributeError", "module 'hashlib' has no attribute")

\* generate_hmac(message, secret_key, algorithm=algorithm)
generate_hmac(message, secret_key, algorithm) ==
  IF message = <<>> THEN Raised("ValueError", "Message must not be empty")
  ELSE IF secret_key = <<>> THEN Raised("ValueError", "Secret key must not be empty")
  ELSE IF algorithm \in HashlibDigests THEN
    Returned(urlsafe_b64encode(
      hmac_digest(Utf8Encode(secret_key), Utf8Encode(message), algorithm)))
  ELSE IF algorithm \in HashlibOtherAttributes THEN
    Raised("TypeError", "digestmod is not a digest constructor")
  ELSE Raised("AttributeError", "module 'hashlib' has no attribute")

\* _derive_fernet_key as it would be if the digest were taken of no data
derive_fernet_key_of_nothing(secret_key) == urlsafe_b64encode(sha256(<<>>))

\* _derive_fernet_key(secret_key)
derive_fernet_key(secret_key) == urlsafe_b64encode(sha256(Utf8Encode(secret_key)))

\* ---------------------------------------------------------------- Fernet
\* cryptography.fernet.Fernet, by its token format: version byte 0x80, an
\* 8-byte big-endian timestamp, a 16-byte IV, the AES-128-CBC ciphertext of
\* the PKCS7-padded plaintext, and a 32-byte HMAC-SHA256 of all that; the
\* first half of the key signs, the second half encrypts.
FernetVersion == 128
BlockSize == 16
TagSize == 32

\* n.to_bytes(8, "big") for a timestamp below 2^32
BigEndian8(n) ==
  <<0, 0, 0, 0, (n \div 16777216) % 256, (n \div 65536) % 256,
    (n \div 256) % 256, n % 256>>

\* PKCS7 padding to the block size
Pkcs7Pad(data) ==
  LET n == BlockSize - (Len(data) % BlockSize)
  IN data \o [i \in 1..n |-> n]

\* PKCS7 unpadding: [ok, data]
Pkcs7Unpad(padded) ==
  LET n == IF padded = <<>> THEN 0 ELSE padded[Len(padded)]
  IN IF /\ padded # <<>>
        /\ Len(padded) % BlockSize = 0
        /\ n >= 1 /\ n <= BlockSize
        /\ \A i \in (Len(padded) - n + 1)..Len(padded) : padded[i] = n
     THEN [ok |-> TRUE, data |-> SubSeq(padded, 1, Len(padded) - n)]
     ELSE [ok |-> FALSE, data |-> <<>>]

RECURSIVE CbcEncrypt(_, _, _, _)
\* CBC chaining over the first n bytes of the padded plaintext, as a keyed
\* byte-wise cipher: each ciphertext byte is the plaintext byte plus the
\* key byte plus the byte one block earlier (the IV before the first block)
CbcEncrypt(key, iv, padded, n) ==
  IF n = 0 THEN <<>>
  ELSE LET before == CbcEncrypt(key, iv, padded, n - BlockSize)
           chain == IF n = BlockSize THEN iv
                    ELSE SubSeq(before, n - 2 * BlockSize + 1, n - BlockSize)
       IN before \o [j \in 1..BlockSize |->
                      (padded[n - BlockSize + j] + chain[j] + key[j]) % 256]

\* the inverse of CbcEncrypt on a ciphertext of whole blocks
CbcDecrypt(key, iv, ct) ==
  [t \in 1..Len(ct) |->
     LET j == ((t - 1) % BlockSize) + 1
         chain == IF t <= BlockSize THEN iv[j] ELSE ct[t - BlockSize]
     IN (ct[t] - chain - key[j]) % 256]

\* Fernet(key): the signing and the encryption key; the constructor raises
\* ValueError unless the key is base64 of 32 bytes
FernetKeys(key) ==
  LET d == urlsafe_b64decode(key)
  IN [ok |-> d.ok /\ Len(d.bytes) = 32,
      signing |-> SubSeq(d.bytes, 1, 16),
      encryption |-> SubSeq(d.bytes, 17, 32)]

\* Fernet.encrypt(data) at time now with the IV iv: the token bytes
FernetEncrypt(keys, data, now, iv) ==
  LET padded == Pkcs7Pad(data)
      basic == <<FernetVersion>> \o BigEndian8(now) \o iv
               \o CbcEncrypt(keys.encryption, iv, padded, Len(padded))
  IN urlsafe_b64encode(basic \o hmac_sha256(keys.signing, basic))

\* Fernet.decrypt as it would be without the verification of the HMAC
FernetDecrypt_unverified(keys, token) ==
  LET d == urlsafe_b64decode(token)
      data == d.bytes
      n == Len(data)
      invalid == [ok |-> FALSE, data |-> <<>>]
  IN IF ~d.ok THEN invalid
     ELSE IF n = 0 \/ data[1] # FernetVersion THEN invalid
     ELSE IF n < 25 + TagSize THEN invalid
     ELSE Pkcs7Unpad(CbcDecrypt(keys.encryption, SubSeq(data, 10, 25),
                                SubSeq(data, 26, n - TagSize)))

\* Fernet.decrypt(token): [ok, data]; not ok is InvalidToken.  The token
\* is base64-decoded, its version byte and length checked, its HMAC
\* verified, its ciphertext decrypted and unpadded.
FernetDecrypt(keys, token) ==
  LET d == urlsafe_b64decode(token)
      data == d.bytes
      n == Len(data)
      invalid == [ok |-> FALSE, data |-> <<>>]
  IN IF ~d.ok THEN invalid
     ELSE IF n = 0 \/ data[1] # FernetVersion THEN invalid
     ELSE IF n < 9 THEN invalid
     ELSE IF n < TagSize THEN invalid
     ELSE IF hmac_sha256(keys.signing, SubSeq(data, 1, n - TagSize))
             # SubSeq(data, n - TagSize + 1, n) THEN invalid
     ELSE IF n < 25 + TagSize THEN invalid
     ELSE Pkcs7Unpad(CbcDecrypt(keys.encryption, SubSeq(data, 10, 25),
                                SubSeq(data, 26, n - TagSize)))

\* the missing-dependency error as it would be if the module raised it as
\* one more invalid-argument error
MissingDependency_as_ValueError ==
  Raised("ValueError", "cryptography package is required for encryption utilities.")

\* the error raised in place of the ImportError of `from cryptography.fernet
\* import Fernet`
MissingDependency ==
  Raised("RuntimeError", "cryptography package is required for encryption utilities.")

\* encrypt_text as it would be if it imported the library before it
\* checked its arguments
encrypt_text_import_first(plain_text, secret_key, importable, now, e) ==
  IF ~importable THEN MissingDependency
  ELSE IF plain_text = <<>> THEN Raised("ValueError", "Plain text must not be empty")
  ELSE IF secret_key = <<>> THEN Raised("ValueError", "Secret key must not be empty")
  ELSE LET keys == FernetKeys(derive_fernet_key(secret_key))
       IN Returned(FernetEncrypt(keys, Utf8Encode(plain_text), now,
                                 urandom(BlockSize, e)))

\* encrypt_text(plain_text, secret_key) with the cryptography package
\* importable or not, at time now, drawing entropy e for the IV
encrypt_text(plain_text, secret_key, importable, now, e) ==
  IF plain_text = <<>> THEN Raised("ValueError", "Plain text must not be empty")
  ELSE IF secret_key = <<>> THEN Raised("ValueError", "Secret key must not be empty")
  ELSE IF ~importable THEN MissingDependency
  ELSE LET keys == FernetKeys(derive_fernet_key(secret_key))
       IN IF ~keys.ok THEN Raised("ValueError", "Fernet key must be 32 url-safe base64-encoded bytes.")
          ELSE Returned(FernetEncrypt(keys, Utf8Encode(plain_text), now,
                                      urandom(BlockSize, e)))

\* decrypt_text as it would be if it decoded the plain text as Latin-1, a
\* character for every byte
decrypt_text_latin1(token, secret_key, importable) ==
  IF token = <<>> THEN Raised("ValueError", "Token must not be empty")
  ELSE IF secret_key = <<>> THEN Raised("ValueError", "Secret key must not be empty")
  ELSE IF ~importable THEN MissingDependency
  ELSE LET keys == FernetKeys(derive_fernet_key(secret_key))
           r == FernetDecrypt(keys, Utf8Encode(token))
       IN IF ~r.ok THEN Raised("InvalidToken", "") ELSE Returned(r.data)

\* decrypt_text(token, secret_key) with the cryptography package installed
\* or not
decrypt_text(token, secret_key, importable) ==
  IF token = <<>> THEN Raised("ValueError", "Token must not be empty")
  ELSE IF secret_key = <<>> THEN Raised("ValueError", "Secret key must not be empty")
  ELSE IF ~importable THEN MissingDependency
  ELSE LET keys == FernetKeys(derive_fernet_key(secret_key))
           r == FernetDecrypt(keys, Utf8Encode(token))
       IN IF ~keys.ok THEN Raised("ValueError", "Fernet key must be 32 url-safe base64-encoded bytes.")
          ELSE IF ~r.ok THEN Raised("InvalidToken", "")
          ELSE Returned(Utf8Decode(r.data))

\* ------------------------------------------------------ the application
\* A Python value that may be None: no element, or the value
None == <<>>
Some(x) == <<x>>

\* bool(x) of a value that is None or an object whose class defines neither
\* __bool__ nor __len__, as the counters of OpenTelemetry
TruthyObject(x) == x # None

\* bool(x) of a value that is None or a dict, a function of its keys
TruthyDict(x) == x # None /\ DOMAIN x[1] # {}

\* os.getenv(key, default) on the environment variable's value
getenv(variable, default) == IF variable = None THEN default ELSE variable[1]

\* health_counter.add(1, {"endpoint": "/health", "status": "healthy"}) as
\* the counter records it
CounterAdd(calls, amount, attributes) ==
  Append(calls, [amount |-> amount, attributes |-> attributes])

\* get_health_response as it would be if it never touched the counter
get_health_response_uncounted(health_counter, calls, now) ==
  [calls |-> calls,
   content |-> [status |-> "healthy", timestamp |-> now]]

\* get_health_response(health_counter), at time now: the calls of add
\* after it, and the content of its JSON response
get_health_response(health_counter, calls, now) ==
  [calls |-> IF TruthyObject(health_counter)
             THEN CounterAdd(calls, 1, [status |-> "healthy", endpoint |-> "/health"])
             ELSE calls,
   content |-> [status |-> "healthy", timestamp |-> now]]

\* get_status_response as it would be if it took the default for an
\* ENVIRONMENT that is set but empty
get_status_response_empty_is_unset(variable, now) ==
  [status |-> "operational", timestamp |-> now,
   application |-> "FastAPI Boilerplate", version |-> "1.0.0",
   environment |-> IF variable = None \/ variable = Some("")
                   THEN "development" ELSE variable[1]]

\* get_status_response(), with the ENVIRONMENT variable as it is at the
\* call, at time now: the content of its JSON response
get_status_response(variable, now) ==
  [status |-> "operational", timestamp |-> now,
   application |-> "FastAPI Boilerplate", version |-> "1.0.0",
   environment |-> getenv(variable, "development")]

\* get_root_response(): the content of its JSON response
get_root_response ==
  [message |-> "Welcome to FastAPI Boilerplate", status |-> "/status",
   docs |-> "/docs", health |-> "/health"]

\* the paths of the routes of the application
Routes == {"/", "/health", "/status"}

\* get_openapi(title=app.title, version=app.version, ..., routes=app.routes,
\* tags=app.openapi_tags)
get_openapi ==
  [openapi |-> "3.1.0",
   info |-> [version |-> "1.0.0", title |-> "FastAPI Boilerplate"],
   paths |-> Routes,
   tags |-> {"root", "health", "status"}]

\* custom_openapi as it would be if it did not look at app.openapi_schema
custom_openapi_uncached(schema, calls) ==
  [calls |-> calls + 1, schema |-> Some(get_openapi), returned |-> get_openapi]

\* custom_openapi(), with app.openapi_schema and the number of times
\* get_openapi ran before the call: both after the call, and what it returns
custom_openapi(schema, calls) ==
  IF TruthyDict(schema)
  THEN [calls |-> calls, schema |-> schema, returned |-> schema[1]]
  ELSE [calls |-> calls + 1, schema |-> Some(get_openapi), returned |-> get_openapi]

\* ------------------------------------------------------------ the client
appvars == <<environ, health_endpoint_counter, add_calls, health_requests,
             openapi_schema, get_openapi_calls, openapi_returns, response>>

vars == <<installed, prev, last, threads, appvars>>

NoCall == [out |-> Raised("none", ""), op |-> "none", args |-> <<>>]

\* the entropy a call may draw from os.urandom
MaxEntropy == 1
Entropy == 0..MaxEntropy

\* the clock readings of time.time() at an encryption
Times == {1700000000}

\* the lengths a client asks a salt of: negative, zero, every positive
\* length up to MaxSaltLength, and the default
MaxSaltLength == 7
SaltLengths == (-2..MaxSaltLength) \cup {DefaultSaltLength}

\* "", "a", "a\0", "b"
Texts == {<<>>, <<97>>, <<97, 0>>, <<98>>}

\* salt arguments: None, "", "s", "s$", "\xe9"
SaltArgs == {NoSalt, SomeSalt(<<>>), SomeSalt(<<115>>), SomeSalt(<<115, DOLLAR>>),
             SomeSalt(<<233>>)}

IterationArgs == {DefaultIterations, 2, 0}

\* stored hashes that no call of the model returned: "", "s$2", "s$x$AA",
\* "s$2$AA$", "s$2$AA", "s$0$AA", "$2$AA", "\xe9$2$AA", "$2$\xe9"
ForeignStoredHashes ==
  {<<>>, <<115, 36, 50>>, <<115, 36, 120, 36, 65, 65>>,
   <<115, 36, 50, 36, 65, 65, 36>>, <<115, 36, 50, 36, 65, 65>>,
   <<115, 36, 48, 36, 65, 65>>, <<36, 50, 36, 65, 65>>,
   <<233, 36, 50, 36, 65, 65>>, <<36, 50, 36, 233>>}

\* A record with its iteration field written another way that int() reads
\* as the same number: a leading zero, a plus sign, a leading space
Respelled(record) ==
  LET parts == Split(record, DOLLAR) IN
  IF Len(parts) # 3 THEN {}
  ELSE {parts[1] \o <<DOLLAR>> \o prefix \o parts[2] \o <<DOLLAR>> \o parts[3] :
          prefix \in {<<ZERO>>, <<PLUS>>, <<32>>}}

\* the stored hashes a client passes to verify_hash: foreign ones, and the
\* record its last hash_text call returned, as returned or respelled
StoredHashes ==
  ForeignStoredHashes \cup
  (IF last.op = "hash_text" /\ last.out.kind = "ok"
   THEN {last.out.text} \cup Respelled(last.out.text) ELSE {})

\* "", "m"
Messages == {<<>>, <<109>>}

\* "", "k", "j"
SecretKeys == {<<>>, <<107>>, <<106>>}

Algorithms == {"sha256", "md5", "new", "sha0"}

\* "", "p", "p\xe9"
PlainTexts == {<<>>, <<112>>, <<112, 233>>}

\* the character after c in the base64 alphabet
AlphabetSuccessor(c) ==
  IF B64Value(c) < 64 THEN B64Char((B64Value(c) + 1) % 64) ELSE 65

\* the characters put in place of the character c of a token: its
\* successor in the alphabet, '+', '/', '=' and '!'
TamperChars(c) == {AlphabetSuccessor(c), PLUS, SLASH, EQUALS, 33} \ {c}

\* the token with the character at position pos replaced by c
Substitute(token, pos, c) == [token EXCEPT ![pos] = c]

\* every token that differs from the given one in exactly one character
\* taken from TamperChars
Tampered(token) ==
  {Substitute(token, pos, c) : <<pos, c>> \in
     UNION {{pos} \X TamperChars(token[pos]) : pos \in 1..Len(token)}}

\* tokens that no call of the model returned: "", "AA", "gA"
ForeignTokens == {<<>>, <<65, 65>>, <<103, 65>>}

\* the tokens a client passes to decrypt_text: foreign ones, and the token
\* its last encrypt_text call returned, as returned or tampered with
Tokens ==
  ForeignTokens \cup
  (IF last.op = "encrypt_text" /\ last.out.kind = "ok"
   THEN {last.out.text} \cup Tampered(last.out.text) ELSE {})

\* the threads of the caller
Threads == {"t1", "t2"}

\* a thread that is in no call
Idle ==
  [out |-> Raised("none", ""), e |-> 0, op |-> "none", args |-> <<>>,
   now |-> 0, pc |-> "idle", overlapped |-> FALSE]

Init ==
  /\ installed \in BOOLEAN
  /\ prev = NoCall
  /\ last = NoCall
  /\ threads = [t \in Threads |-> Idle]
  /\ environ = None
  /\ health_endpoint_counter = Some("health_endpoint_calls")
  /\ add_calls = <<>>
  /\ health_requests = 0
  /\ openapi_schema = None
  /\ get_openapi_calls = 0
  /\ openapi_returns = <<>>
  /\ response = None

\* The client makes a call and sees its outcome; it makes at most two.
Record(op, args, out) ==
  /\ prev = NoCall
  /\ prev' = last
  /\ last' = [out |-> out, op |-> op, args |-> args]
  /\ UNCHANGED <<installed, threads, appvars>>

GenerateSalt ==
  \E length \in SaltLengths, e \in Entropy :
    Record("generate_salt", [length |-> length], generate_salt(length, e))

HashText ==
  \E text \in Texts, salt \in SaltArgs, iterations \in IterationArgs, e \in Entropy :
    Record("hash_text", [text |-> text, salt |-> salt, iterations |-> iterations],
           hash_text(text, salt, iterations, e))

VerifyHash ==
  \E text \in Texts, stored_hash \in StoredHashes, e \in Entropy :
    Record("verify_hash", [text |-> text, stored_hash |-> stored_hash],
           verify_hash(text, stored_hash, e))

GenerateHmac ==
  \E message \in Messages, secret_key \in SecretKeys, algorithm \in Algorithms :
    Record("generate_hmac",
           [algorithm |-> algorithm, message |-> message, secret_key |-> secret_key],
           generate_hmac(message, secret_key, algorithm))

EncryptText ==
  \E plain_text \in PlainTexts, secret_key \in SecretKeys, now \in Times, e \in Entropy :
    Record("encrypt_text", [secret_key |-> secret_key, plain_text |-> plain_text],
           encrypt_text(plain_text, secret_key, installed, now, e))

DecryptText ==
  \E token \in Tokens, secret_key \in SecretKeys :
    Record("decrypt_text", [secret_key |-> secret_key, token |-> token],
           decrypt_text(token, secret_key, installed))

\* salt generation
NextSalt == GenerateSalt
SpecSalt == Init /\ [][NextSalt]_vars

\* signing
NextHmac == GenerateHmac
SpecHmac == Init /\ [][NextHmac]_vars

\* the hashing operations
NextHash == HashText \/ VerifyHash
SpecHash == Init /\ [][NextHash]_vars

\* the encryption operations
NextCipher == EncryptText \/ DecryptText
SpecCipher == Init /\ [][NextCipher]_vars

\* every operation
Next ==
  \/ GenerateSalt \/ HashText \/ VerifyHash
  \/ GenerateHmac \/ EncryptText \/ DecryptText
Spec == Init /\ [][Next]_vars

\* --------------------------------------------- requests to the application
\* the values the ENVIRONMENT variable takes: unset, "", "test", "production"
Environments == {None, Some(""), Some("test"), Some("production")}

\* the health counter of the application: none, or the counter that
\* setup_telemetry created
HealthCounters == {None, Some("health_endpoint_calls")}

\* the requests of one kind that the application handles
MaxRequests == 3

\* the application after start-up, in an environment
InitApp ==
  /\ installed = TRUE
  /\ prev = NoCall
  /\ last = NoCall
  /\ threads = [t \in Threads |-> Idle]
  /\ environ \in Environments
  /\ health_endpoint_counter \in HealthCounters
  /\ add_calls = <<>>
  /\ health_requests = 0
  /\ openapi_schema = None
  /\ get_openapi_calls = 0
  /\ openapi_returns = <<>>
  /\ response = None

\* the response to a request for a path
Respond(path, content) == response' = Some([content |-> content, path |-> path])

\* the process's ENVIRONMENT variable is set, changed or deleted
SetEnvironment ==
  /\ \E variable \in Environments \ {environ} : environ' = variable
  /\ UNCHANGED <<installed, prev, last, threads, health_endpoint_counter, add_calls,
                 health_requests, openapi_schema, get_openapi_calls,
                 openapi_returns, response>>

\* GET /
root ==
  /\ Respond("/", get_root_response)
  /\ UNCHANGED <<installed, prev, last, threads, environ, health_endpoint_counter,
                 add_calls, health_requests, openapi_schema, get_openapi_calls,
                 openapi_returns>>

\* GET /health
health_check ==
  /\ health_requests < MaxRequests
  /\ \E now \in Times :
       LET r == get_health_response(health_endpoint_counter, add_calls, now)
       IN /\ add_calls' = r.calls
          /\ Respond("/health", r.content)
  /\ health_requests' = health_requests + 1
  /\ UNCHANGED <<installed, prev, last, threads, environ, health_endpoint_counter,
                 openapi_schema, get_openapi_calls, openapi_returns>>

\* GET /status
status_check ==
  /\ \E now \in Times : Respond("/status", get_status_response(environ, now))
  /\ UNCHANGED <<installed, prev, last, threads, environ, health_endpoint_counter,
                 add_calls, health_requests, openapi_schema, get_openapi_calls,
                 openapi_returns>>

\* GET /openapi.json: app.openapi(), which is custom_openapi
openapi ==
  /\ Len(openapi_returns) < MaxRequests
  /\ LET r == custom_openapi(openapi_schema, get_openapi_calls)
     IN /\ openapi_schema' = r.schema
        /\ get_openapi_calls' = r.calls
        /\ openapi_returns' = Append(openapi_returns, r.returned)
        /\ Respond("/openapi.json", r.returned)
  /\ UNCHANGED <<installed, prev, last, threads, environ, health_endpoint_counter,
                 add_calls, health_requests>>

NextApp == SetEnvironment \/ root \/ health_check \/ status_check \/ openapi
SpecApp == InitApp /\ [][NextApp]_vars

\* ------------------------------------------------ calls at the same time
\* a token that encrypt_text("p", "k") returned: the clock reading is the
\* one of Times
SampleToken ==
  encrypt_text(<<112>>, <<107>>, TRUE, CHOOSE now \in Times : TRUE, 0).text

\* the calls the threads make: generate_salt(2), hash_text("a", iterations=2),
\* hash_text("a", salt="s", iterations=2), hash_text("", iterations=2),
\* verify_hash("a", "s$2$AA"), verify_hash("a", "$2$AA"),
\* generate_hmac("m", "k"), encrypt_text("p", "k"),
\* decrypt_text(SampleToken, "k")
ConcurrentCalls ==
  {[op |-> "generate_salt", args |-> [length |-> 2]],
   [op |-> "hash_text", args |-> [text |-> <<97>>, salt |-> NoSalt, iterations |-> 2]],
   [op |-> "hash_text",
    args |-> [text |-> <<97>>, salt |-> SomeSalt(<<115>>), iterations |-> 2]],
   [op |-> "hash_text", args |-> [text |-> <<>>, salt |-> NoSalt, iterations |-> 2]],
   [op |-> "verify_hash",
    args |-> [text |-> <<97>>, stored_hash |-> <<115, 36, 50, 36, 65, 65>>]],
   [op |-> "verify_hash",
    args |-> [text |-> <<97>>, stored_hash |-> <<36, 50, 36, 65, 65>>]],
   [op |-> "generate_hmac",
    args |-> [algorithm |-> "sha256", message |-> <<109>>, secret_key |-> <<107>>]],
   [op |-> "encrypt_text", args |-> [secret_key |-> <<107>>, plain_text |-> <<112>>]],
   [op |-> "decrypt_text", args |-> [secret_key |-> <<107>>, token |-> SampleToken]]}

\* the call reaches os.urandom: generate_salt with a positive length,
\* hash_text with a text and no salt, verify_hash with a text and an empty
\* salt field, encrypt_text with both arguments once Fernet is imported
Draws(op, args) ==
  CASE op = "generate_salt" -> args.length > 0
    [] op = "hash_text" -> args.text # <<>> /\ args.salt.val = <<>>
    [] op = "verify_hash" ->
         LET parts == Split(args.stored_hash, DOLLAR)
         IN /\ Len(parts) = 3 /\ ParseInt(parts[2]).ok
            /\ args.text # <<>> /\ parts[1] = <<>>
    [] op = "encrypt_text" ->
         args.plain_text # <<>> /\ args.secret_key # <<>> /\ installed
    [] OTHER -> FALSE

\* the outcome of the operation on the arguments, with the entropy e and
\* the clock reading now if the call reads them
Apply(op, args, e, now) ==
  CASE op = "generate_salt" -> generate_salt(args.length, e)
    [] op = "hash_text" -> hash_text(args.text, args.salt, args.iterations, e)
    [] op = "verify_hash" -> verify_hash(args.text, args.stored_hash, e)
    [] op = "generate_hmac" ->
         generate_hmac(args.message, args.secret_key, args.algorithm)
    [] op = "encrypt_text" ->
         encrypt_text(args.plain_text, args.secret_key, installed, now, e)
    [] op = "decrypt_text" -> decrypt_text(args.token, args.secret_key, installed)

\* the bytes and the clock reading as they would be if the module kept what
\* it read in module-level variables: a thread sees what another thread
\* that is between its read and its return has read
Locals_module_level(t) ==
  IF \E u \in Threads \ {t} : threads[u].pc = "drawn"
  THEN LET u == CHOOSE u \in Threads \ {t} : threads[u].pc = "drawn"
       IN [threads[t] EXCEPT !.e = threads[u].e, !.now = threads[u].now]
  ELSE threads[t]

\* the local variables of the call that thread t is in
Locals(t) == threads[t]

\* another thread is inside a call
OthersInCall(t) ==
  \E u \in Threads \ {t} : threads[u].pc \in {"called", "drawn"}

\* thread t enters a call with its arguments
ThreadCall(t) ==
  /\ threads[t].pc = "idle"
  /\ \E c \in ConcurrentCalls :
       threads' = [threads EXCEPT ![t] =
                     [@ EXCEPT !.pc = "called", !.op = c.op, !.args = c.args,
                               !.overlapped = OthersInCall(t)]]
  /\ UNCHANGED <<installed, prev, last, appvars>>

\* the call of thread t reads the entropy source, and the clock if it is an
\* encryption
ThreadDraw(t) ==
  /\ threads[t].pc = "called"
  /\ Draws(threads[t].op, threads[t].args)
  /\ \E e \in Entropy, now \in Times :
       threads' = [threads EXCEPT ![t] =
                     [@ EXCEPT !.pc = "drawn", !.e = e,
                               !.now = IF threads[t].op = "encrypt_text" THEN now ELSE 0,
                               !.overlapped = @ \/ OthersInCall(t)]]
  /\ UNCHANGED <<installed, prev, last, appvars>>

\* the call of thread t computes its outcome from its local variables and
\* returns or raises
ThreadReturn(t) ==
  /\ \/ threads[t].pc = "drawn"
     \/ threads[t].pc = "called" /\ ~Draws(threads[t].op, threads[t].args)
  /\ threads' = [threads EXCEPT ![t] =
                   [@ EXCEPT !.pc = "done",
                             !.out = Apply(Locals(t).op, Locals(t).args,
                                           Locals(t).e, Locals(t).now),
                             !.overlapped = @ \/ OthersInCall(t)]]
  /\ UNCHANGED <<installed, prev, last, appvars>>

NextThreads ==
  \E t \in Threads : ThreadCall(t) \/ ThreadDraw(t) \/ ThreadReturn(t)
SpecThreads == Init /\ [][NextThreads]_vars

\* ------------------------------------------------------------ properties
\* the two calls the client made, by operation
Made(call, op) == call.op = op
Ok(call) == call.out.kind = "ok"

\* stored_hash splits on '$' into exactly three fields and int() reads the
\* middle one
WellFormed(stored_hash) ==
  LET parts == Split(stored_hash, DOLLAR)
  IN Len(parts) = 3 /\ ParseInt(parts[2]).ok

\* the client hashed a text with the default salt and iterations and then
\* verified a text against the record that call returned
VerifiedOwnRecord ==
  /\ Made(prev, "hash_text") /\ Ok(prev)
  /\ prev.args.salt = NoSalt /\ prev.args.iterations = DefaultIterations
  /\ Made(last, "verify_hash")
  /\ last.args.stored_hash = prev.out.text

\* C1: for every non-empty text, verify_hash(text, hash_text(text)) returns
\* true, and verify_hash(text2, hash_text(text)) returns false, not an error,
\* for every text2 different from text.
C1_VerifyMatchesOnlyOriginal ==
  VerifiedOwnRecord =>
    /\ Ok(last)
    /\ last.out.bool = (last.args.text = prev.args.text)

\* C2: verify_hash returns a boolean for every text whenever stored_hash is
\* well formed; it raises only on a structurally malformed stored_hash.
C2_VerifyNeverRaisesOnWellFormed ==
  (Made(last, "verify_hash") /\ WellFormed(last.args.stored_hash)) => Ok(last)

\* the client called hash_text twice with the same non-empty text, the same
\* salt string and the same iteration count
HashedTwiceWithSalt ==
  /\ Made(prev, "hash_text") /\ Made(last, "hash_text")
  /\ prev.args = last.args
  /\ last.args.text # <<>>
  /\ last.args.salt.given

\* C3 as stated: two hash_text calls with the same non-empty text, the same
\* salt string, whatever it is, and the same iterations return identical
\* records.
C3_DeterministicForEverySalt ==
  HashedTwiceWithSalt => (Ok(last) /\ last.out = prev.out)

\* C3 as amended: two hash_text calls with the same non-empty text, the same
\* non-empty salt string and the same iterations have the same outcome: the
\* identical record when iterations is at least 1, the same error otherwise.
C3_DeterministicForNonEmptySalt ==
  (HashedTwiceWithSalt /\ last.args.salt.val # <<>>) =>
    /\ last.out = prev.out
    /\ Ok(last) <=> last.args.iterations >= 1

C3_Witness ==
  /\ HashedTwiceWithSalt /\ last.args.salt.val # <<>>
  /\ Ok(last) /\ Ok(prev)

\* C4: every record hash_text returns splits on '$' into exactly three
\* fields, the salt used, the decimal iteration count and the digest, so
\* verify_hash's format check accepts it.
C4_RecordHasThreeFields ==
  (Made(last, "hash_text") /\ Ok(last)) =>
    LET parts == Split(last.out.text, DOLLAR) IN
    /\ Len(parts) = 3
    /\ parts[2] = IntStr(last.args.iterations)
    /\ (last.args.salt.given /\ last.args.salt.val # <<>>)
         => parts[1] = last.args.salt.val
    /\ WellFormed(last.out.text)

\* the record hash_text returns for the fields parsed from stored_hash, for
\* some entropy, equals the given string
RecomputedEquals(text, stored_hash, target) ==
  /\ WellFormed(stored_hash)
  /\ LET parts == Split(stored_hash, DOLLAR) IN
     \E e \in Entropy :
       LET r == hash_text(text, SomeSalt(parts[1]), ParseInt(parts[2]).val, e)
       IN r.kind = "ok" /\ r.text = target

\* stored_hash with its iteration field rewritten as the decimal numeral of
\* the integer it parses to
Canonical(stored_hash) ==
  LET parts == Split(stored_hash, DOLLAR)
  IN parts[1] \o <<DOLLAR>> \o IntStr(ParseInt(parts[2]).val) \o <<DOLLAR>>
     \o parts[3]

C6_MalformedIsFormatError ==
  (Made(last, "verify_hash") /\ ~WellFormed(last.args.stored_hash))
    => last.out = FormatError

C6_Witness ==
  /\ Made(last, "verify_hash") /\ last.args.text = <<>>
  /\ Len(Split(last.args.stored_hash, DOLLAR)) = 3
  /\ ~WellFormed(last.args.stored_hash)
  /\ last.out = FormatError

\* the client encrypted a text and then decrypted a token under a key
Decrypted ==
  /\ Made(prev, "encrypt_text") /\ Ok(prev)
  /\ Made(last, "decrypt_text")

\* C7: with the encryption library available, decrypting the token that
\* encrypt_text returned, under the same secret key, returns the plain text.
C7_RoundTrip ==
  (/\ Decrypted
   /\ last.args.token = prev.out.text
   /\ last.args.secret_key = prev.args.secret_key)
    => last.out = Returned(prev.args.plain_text)

C7_Witness ==
  /\ Decrypted
  /\ last.args.token = prev.out.text
  /\ last.args.secret_key = prev.args.secret_key
  /\ ~IsAscii(prev.args.plain_text)
  /\ Ok(last)

\* C8: decrypting the token that encrypt_text returned under a different
\* non-empty secret key raises the integrity error and returns no plain text.
C8_OtherKeyRejected ==
  (/\ Decrypted
   /\ last.args.token = prev.out.text
   /\ last.args.secret_key # <<>>
   /\ last.args.secret_key # prev.args.secret_key)
    => last.out = Raised("InvalidToken", "")

C8_Witness ==
  /\ Decrypted
  /\ last.args.token = prev.out.text
  /\ last.args.secret_key # <<>>
  /\ last.args.secret_key # prev.args.secret_key
  /\ last.out.kind = "InvalidToken"

\* the client decrypted, under the original key, the token that encrypt_text
\* returned with one character replaced by a different one
DecryptedTampered ==
  /\ Decrypted
  /\ last.args.secret_key = prev.args.secret_key
  /\ Len(last.args.token) = Len(prev.out.text)
  /\ Cardinality({i \in 1..Len(prev.out.text) :
                    last.args.token[i] # prev.out.text[i]}) = 1

\* C9 as stated: replacing any one character of a token by a different one
\* makes decrypt_text under the original key raise the integrity error.
C9_EveryTamperRejected ==
  DecryptedTampered => last.out = Raised("InvalidToken", "")

\* C9 as amended: replacing one character of a token makes decrypt_text
\* under the original key raise the integrity error, unless the changed
\* token base64-decodes to the same bytes as the original ('+' for '-', '/'
\* for '_', or a change in the unused low bits of the last character before
\* the padding); then it returns the original plain text.  It never returns
\* another plain text.
C9_TamperRejectedUnlessSameBytes ==
  DecryptedTampered =>
    IF urlsafe_b64decode(Utf8Encode(last.args.token))
         = urlsafe_b64decode(Utf8Encode(prev.out.text))
    THEN last.out = Returned(prev.args.plain_text)
    ELSE last.out = Raised("InvalidToken", "")

C9_Witness ==
  /\ DecryptedTampered
  /\ last.out.kind = "InvalidToken"
  /\ last.args.token[Len(last.args.token)] = EQUALS

C9_WitnessSameBytes ==
  /\ DecryptedTampered
  /\ Ok(last)

\* the call has an empty required string: the text of hash_text, the
\* message or the key of generate_hmac, the plain text or the key of
\* encrypt_text, the token or the key of decrypt_text
EmptyRequired(call) ==
  \/ Made(call, "hash_text") /\ call.args.text = <<>>
  \/ Made(call, "generate_hmac")
       /\ (call.args.message = <<>> \/ call.args.secret_key = <<>>)
  \/ Made(call, "encrypt_text")
       /\ (call.args.plain_text = <<>> \/ call.args.secret_key = <<>>)
  \/ Made(call, "decrypt_text")
       /\ (call.args.token = <<>> \/ call.args.secret_key = <<>>)

\* the invalid-argument errors of the module's emptiness checks
EmptyArgumentErrors ==
  {Raised("ValueError", m) :
     m \in {"Text to hash must not be empty", "Message must not be empty",
            "Secret key must not be empty", "Plain text must not be empty",
            "Token must not be empty"}}

\* C10: a call with an empty required string is rejected with an
\* invalid-argument error and no result, whatever its other arguments are
\* and whether or not the encryption library is installed.
C10_EmptyRejected ==
  /\ EmptyRequired(last) => last.out \in EmptyArgumentErrors
  /\ EmptyRequired(prev) => prev.out \in EmptyArgumentErrors

C10_Witness ==
  /\ ~installed
  /\ Made(prev, "generate_hmac") /\ prev.args.message = <<>>
  /\ prev.args.algorithm = "sha0"
  /\ Made(last, "decrypt_text") /\ last.args.secret_key = <<>>
  /\ last.args.token # <<>>
  /\ last.out \in EmptyArgumentErrors /\ prev.out \in EmptyArgumentErrors

\* the text is URL-safe base64: characters of the URL-safe alphabet, then
\* '=' padding up to a multiple of four characters
IsUrlSafeBase64(t) ==
  /\ Len(t) % 4 = 0
  /\ \A i \in 1..Len(t) :
       \/ B64Value(t[i]) < 64 /\ t[i] \notin {PLUS, SLASH}
       \/ t[i] = EQUALS /\ i > Len(t) - 2 /\ \A j \in i..Len(t) : t[j] = EQUALS

\* the call asked for a salt of a positive length and got text that is
\* URL-safe base64 and decodes to that many bytes; or it asked for a length
\* of zero or less and got the invalid-argument error
SaltAsAsked(call) ==
  Made(call, "generate_salt") =>
    IF call.args.length > 0
    THEN /\ Ok(call)
         /\ IsUrlSafeBase64(call.out.text)
         /\ urlsafe_b64decode(Utf8Encode(call.out.text)).ok
         /\ Len(urlsafe_b64decode(Utf8Encode(call.out.text)).bytes) = call.args.length
    ELSE call.out = Raised("ValueError", "Salt length must be positive")

\* C11: for every positive length n, generate_salt(n) returns URL-safe
\* base64 text that decodes to exactly n raw bytes; for n = 0 and every
\* negative n it raises an invalid-argument error and returns no salt.
C11_SaltDecodesToLength == SaltAsAsked(prev) /\ SaltAsAsked(last)

C11_Witness ==
  /\ Made(prev, "generate_salt") /\ prev.args.length = 0 /\ ~Ok(prev)
  /\ Made(last, "generate_salt") /\ last.args.length = MaxSaltLength
  /\ Ok(last) /\ Len(last.out.text) >= MaxSaltLength

\* the client called generate_hmac twice with the same non-empty message,
\* the same non-empty key and the same algorithm
SignedTwice ==
  /\ Made(prev, "generate_hmac") /\ Made(last, "generate_hmac")
  /\ prev.args = last.args
  /\ last.args.message # <<>> /\ last.args.secret_key # <<>>

CipherCallWithArguments(call) ==
  \/ Made(call, "encrypt_text")
       /\ call.args.plain_text # <<>> /\ call.args.secret_key # <<>>
  \/ Made(call, "decrypt_text")
       /\ call.args.token # <<>> /\ call.args.secret_key # <<>>

\* the call failed with the missing-dependency error, which is not an
\* invalid-argument error, and returned nothing
FailedForMissingDependency(call) ==
  /\ call.out = MissingDependency
  /\ call.out.kind # "ok"
  /\ call.out.kind # "ValueError"
  /\ call.out \notin EmptyArgumentErrors

\* C13: when the symmetric-encryption library is unavailable, encrypt_text
\* and decrypt_text called with non-empty arguments fail with a
\* missing-dependency error whose kind is distinct from the
\* invalid-argument error, and return no result.
C13_MissingDependencyError ==
  ~installed =>
    /\ CipherCallWithArguments(prev) => FailedForMissingDependency(prev)
    /\ CipherCallWithArguments(last) => FailedForMissingDependency(last)

C13_Witness ==
  /\ ~installed
  /\ Made(prev, "encrypt_text") /\ CipherCallWithArguments(prev)
  /\ Made(last, "decrypt_text") /\ CipherCallWithArguments(last)
  /\ prev.out.kind = "RuntimeError" /\ last.out.kind = "RuntimeError"

\* thread t has finished its call
Done(t) == threads[t].pc = "done"

\* the entropy that the finished call of thread t drew for a salt
SaltEntropy(t) ==
  IF threads[t].op \in {"generate_salt", "hash_text", "verify_hash"}
  THEN threads[t].e ELSE 0

SignedWithUnsupported(call) ==
  /\ Made(call, "generate_hmac")
  /\ call.args.message # <<>> /\ call.args.secret_key # <<>>
  /\ call.args.algorithm \notin HashlibDigests

\* C17: generate_hmac called with non-empty message and secret_key and an
\* algorithm name that is not a supported digest fails with an error and
\* returns no signature; it never returns a signature computed with some
\* other algorithm.
C17_UnsupportedAlgorithmFails ==
  /\ SignedWithUnsupported(prev) => ~Ok(prev) /\ prev.out.text = <<>>
  /\ SignedWithUnsupported(last) => ~Ok(last) /\ last.out.text = <<>>

C17_Witness ==
  /\ SignedWithUnsupported(prev) /\ prev.args.algorithm = "new"
  /\ prev.out.kind = "TypeError"
  /\ SignedWithUnsupported(last) /\ last.args.algorithm = "sha0"
  /\ last.out.kind = "AttributeError"

\* the call is a verify_hash of a non-empty text against a stored hash of
\* three fields with an empty salt field and a positive iteration count
VerifiedAgainstEmptySalt(call) ==
  /\ Made(call, "verify_hash") /\ call.args.text # <<>>
  /\ LET parts == Split(call.args.stored_hash, DOLLAR)
     IN /\ Len(parts) = 3 /\ parts[1] = <<>>
        /\ ParseInt(parts[2]).ok /\ ParseInt(parts[2]).val > 0

\* C18: a stored record whose salt field is empty never verifies: for every
\* non-empty text, every positive iteration count and every digest field,
\* verify_hash(text, "$<iterations>$<digest>") returns false.
C18_EmptySaltNeverVerifies ==
  /\ VerifiedAgainstEmptySalt(prev) => prev.out = ReturnedBool(FALSE)
  /\ VerifiedAgainstEmptySalt(last) => last.out = ReturnedBool(FALSE)

\* the counter is configured and add was called once for each /health
\* request handled, each time with 1 and the attributes of the endpoint
CountedEveryHealthRequest ==
  health_endpoint_counter # None =>
    /\ Len(add_calls) = health_requests
    /\ \A i \in 1..Len(add_calls) :
         /\ add_calls[i].amount = 1
         /\ add_calls[i].attributes = [status |-> "healthy", endpoint |-> "/health"]

\* the last response is the one to a request for the path
RespondedTo(path) == response # None /\ response[1].path = path

\* C15: each handled GET /health request, when a health counter is
\* configured, calls the counter's add exactly once with increment 1 and
\* attributes endpoint="/health", status="healthy", and the response
\* reports status "healthy"; so after any sequence of n health requests the
\* counter has been incremented n times.
C15_HealthCountsEveryRequest ==
  /\ CountedEveryHealthRequest
  /\ RespondedTo("/health") => response[1].content.status = "healthy"

C15_Witness ==
  /\ health_endpoint_counter # None
  /\ health_requests = MaxRequests /\ Len(add_calls) = MaxRequests
  /\ RespondedTo("/health") /\ response[1].content.status = "healthy"

\* C16: GET /status reports status "operational", application "FastAPI
\* Boilerplate", version "1.0.0", and as environment the value of the
\* ENVIRONMENT variable at the time of the request, or "development" when
\* that variable is not set.
C16_StatusReportsEnvironment ==
  [][status_check =>
       /\ response' # None /\ response'[1].path = "/status"
       /\ LET content == response'[1].content
          IN /\ content.status = "operational"
             /\ content.application = "FastAPI Boilerplate"
             /\ content.version = "1.0.0"
             /\ content.environment =
                  IF environ = None THEN "development" ELSE environ[1]]_vars

C16_Witness ==
  /\ environ = Some("")
  /\ RespondedTo("/status") /\ response[1].content.environment = ""
  /\ response[1].content.status = "operational"

\* C19: custom_openapi generates the OpenAPI schema at most once: the first
\* call builds the schema and stores it on the app, and every later call in
\* any sequence of calls returns that same stored schema without
\* rebuilding it.
C19_SchemaBuiltOnce ==
  /\ get_openapi_calls <= 1
  /\ openapi_returns = <<>> => get_openapi_calls = 0 /\ openapi_schema = None
  /\ openapi_returns # <<>> =>
       /\ get_openapi_calls = 1
       /\ openapi_schema = Some(openapi_returns[1])
       /\ \A i \in 1..Len(openapi_returns) : openapi_returns[i] = openapi_returns[1]

C19_Witness ==
  /\ Len(openapi_returns) = MaxRequests /\ get_openapi_calls = 1
  /\ openapi_schema = Some(openapi_returns[MaxRequests])
  /\ RespondedTo("/openapi.json")

====
